---- MODULE Spec2Model ----
(***************************************************************************)
(* Model of the pipe streams of Viper/io.py: BytesBuffer (the byte pipe)   *)
(* and StringBuffer (the text pipe).  One pipe object is shared by a       *)
(* writer thread, a reader thread and a third thread that calls close().   *)
(*                                                                         *)
(* Granularity: Python gives no atomicity beyond a single attribute load   *)
(* or store, so every load of a cursor that the opposite side mutates is a *)
(* separate step of the thread that performs it.  Loads of `closed` made   *)
(* while the write lock is held are merged with the neighbouring step      *)
(* (close() needs that lock, so the value cannot change).  threading.Event *)
(* is a boolean flag: wait() is enabled when the flag is set, and does NOT *)
(* release any lock.  threading.RLock is an owner field.                   *)
(*                                                                         *)
(* The module also models save_fallen_threads of better_threading.py, the  *)
(* exit handler that runs the finalizers of the FallenThreads (variable    *)
(* sft, specification SpecShutdown).                                       *)
(***************************************************************************)
EXTENDS Integers, Sequences, FiniteSets, TLC

\* ---------------------------------------------------------------- bounds
MaxCap == 2
MaxBytes == 3
MaxRead == 2
MaxChars == 2
MaxFallen == 2

\* ------------------------------------------------------- program constants
NL == 10
Inf == 1000

\* The k-th byte the writer thread sends is distinct from every other one,
\* and the byte at position NLPos is the line terminator.
NLPos == MaxBytes - 1
Payload == [k \in 1..MaxBytes |-> IF k = NLPos THEN NL ELSE 100 + k]

\* The text the writer thread of a text pipe sends, as code points: a two-byte
\* character, the line terminator, then two-byte and one-byte characters.
TextPayload == [k \in 1..MaxChars |->
                   IF k = 2 THEN NL ELSE IF k % 2 = 1 THEN 232 + k ELSE 96 + k]

VARIABLES
    kind,           \* "bytes" (BytesBuffer) or "text" (StringBuffer)
    buffer,         \* self.__buffer, a bytearray (Python index i is buffer[i+1])
    start,          \* self.__start, the read cursor
    end,            \* self.__end, the write cursor
    closed,         \* self.__closed
    read_event,     \* self.__read_event  (data available)
    write_event,    \* self.__write_event (space available)
    read_lock,      \* owner of self.__read_lock
    write_lock,     \* owner of self.__write_lock
    extra,          \* StringBuffer: self.__extra, encoded bytes not yet stored
    total,          \* StringBuffer: self.__total, characters written
    read,           \* StringBuffer: self.__read, characters returned
    w,              \* the writer thread: position and locals of write()
    r,              \* the reader thread: position and locals of read()/readline()/readinto()
    c,              \* the closing thread: position inside close()
    h,              \* history: what the calls were given and what they returned
    sft,            \* save_fallen_threads: FallenThread class fields, the locals of
                    \* the handler and the position of each of its threads
    parked          \* a second thread of the writing side, while the thread in w
                    \* is the one that takes the steps

vars == <<kind, buffer, start, end, closed, read_event, write_event,
          read_lock, write_lock, extra, total, read, w, r, c, h, sft, parked>>

pipe == <<kind, buffer, start, end, closed, read_event, write_event, extra, total, read>>

\* ------------------------------------------------------------ Python helpers
Min(a, b) == IF a < b THEN a ELSE b
Max(a, b) == IF a > b THEN a ELSE b

\* a % n of Python for n > 0 (the result is never negative)
PyMod(a, n) == ((a % n) + n) % n

\* seq[a:b] of Python, for 0 <= a
Slice(seq, a, b) == SubSeq(seq, a + 1, Min(b, Len(seq)))

\* seq[a:b] = data on a bytearray: the slice is clipped to the array, and a
\* replacement longer than the slice makes the array grow.
SliceAssign(seq, a, b, data) ==
    LET lo == Min(a, Len(seq))
        hi == Min(Max(b, lo), Len(seq))
    IN  SubSeq(seq, 1, lo) \o data \o SubSeq(seq, hi + 1, Len(seq))

Contains(seq, x) == \E i \in 1..Len(seq) : seq[i] = x

\* seq.index(x), for a seq that contains x
IndexOf(seq, x) == CHOOSE i \in 0..(Len(seq) - 1) :
                      /\ seq[i + 1] = x
                      /\ \A j \in 1..i : seq[j] # x

IsPrefix(a, b) == Len(a) <= Len(b) /\ a = SubSeq(b, 1, Len(a))

\* read < size, where size may be float("inf")
Below(n, size) == size = Inf \/ n < size

\* str.encode(): UTF-8, for code points below 2048
EncodeChar(cp) == IF cp < 128 THEN <<cp>> ELSE <<192 + (cp \div 64), 128 + (cp % 64)>>

RECURSIVE Encode(_)
Encode(str) == IF str = <<>> THEN <<>> ELSE EncodeChar(Head(str)) \o Encode(Tail(str))

\* ------------------------------------------------- the code's expressions
\* write(), line 526: the condition of the conditional expression, and then
\* the operand it selects: (start - end) % len, or len when start == end.
\* (Variant: the ring is always taken for empty, so a full ring offers len bytes.)
MutWriteCond(s, e) == FALSE
WriteCond(s, e) == s # e
\* (Variant: without the test, so an empty ring offers 0 bytes.)
MutAvailable(cond, s, e, n) == PyMod(s - e, n)
Available(cond, s, e, n) == IF cond THEN PyMod(s - e, n) ELSE n

\* write(), lines 532-539: the number of bytes of the next packet.
WritePacketLen(s, e, n, available, done, total_len) ==
    IF PyMod(s, n) > PyMod(e, n)
    THEN Min(total_len, done + available) - done
    ELSE LET av == IF PyMod(0 - e, n) = 0 THEN n ELSE PyMod(0 - e, n)
         IN  Min(total_len, done + av) - done

\* write(), line 520: the test made right after the write lock is taken.
\* (Variant: the test is missing.)
MutWriteRaises(is_closed) == FALSE
WriteRaises(is_closed) == is_closed

\* write(), line 524: the condition of the outer loop.
\* (Variant: the loop stops one byte early.)
MutWriteContinues(done, total_len, is_closed) == done + 1 < total_len /\ ~is_closed
WriteContinues(done, total_len, is_closed) == done < total_len /\ ~is_closed

\* write(), line 542 and read(), line 583: the edge tests.
WriteNotify(s, e) == e = s
ReadNotify(s, e, n) == s + n = e

\* read(), line 561: the test made right after the read lock is taken.
\* (Variant: the test ignores the unread bytes.)
MutReadRaises(is_closed, s, e) == is_closed
ReadRaises(is_closed, s, e) == is_closed /\ s = e

\* read(), lines 555-558: the array the bytes are collected in.
NewBuffer(size) == IF size = Inf THEN <<>> ELSE [i \in 1..size |-> 0]

\* read(), line 590: the value returned.
\* (Variant: the whole array is returned, not its first n_read bytes.)
MutReadReturn(buf, n_read) == buf
ReadReturn(buf, n_read) == Slice(buf, 0, n_read)

\* close(), line 484: `with self.write_lock` goes on once no other thread owns
\* the lock.
\* (Variant: close() does not wait for the lock.)
MutLockFree(owner) == TRUE
LockFree(owner) == owner = "none"

\* close(), line 485: the value the flag gets, whatever it was before.
\* (Variant: the flag is toggled.)
MutCloseSets(was) == ~was
CloseSets(was) == TRUE

\* read(), line 553 (readline 632; StringBuffer 894, 945): the test on size,
\* made before the lock is asked for.
\* (Variant: the test is missing.)
MutSizeRaises(size) == FALSE
SizeRaises(size) == size < 0

\* read(), line 565: the condition of the outer loop.
\* (Variant: the loop stops one byte early.)
MutReadContinues(n, size, is_closed) == Below(n + 1, size) /\ ~is_closed
ReadContinues(n, size, is_closed) == Below(n, size) /\ ~is_closed

\* readline(), lines 664-665: the packet is cut after its first "\n".
\* (Variant: the packet is not cut.)
MutLineCut(packet) == packet
LineCut(packet) ==
    IF Contains(packet, NL) THEN SubSeq(packet, 1, IndexOf(packet, NL) + 1) ELSE packet

\* a write that counts one character less than it was given
MutWriteTotal(t, chars) == t + chars - 1

\* StringBuffer.write, line 864: self.__total += len(data)
WriteTotal(t, chars) == t + chars

\* read(), lines 572-579: the stop index of the packet and its length.
\* (Variant: the run always extends to the end of the storage.)
MutPacketLen(mid, s, e, n, size, n_read) ==
    LET len == Max(0, n - PyMod(s, n))
    IN  IF size # Inf /\ len > size - n_read THEN size - n_read ELSE len
PacketLen(mid, s, e, n, size, n_read) ==
    LET stop == IF mid THEN PyMod(e, n) ELSE n
        len  == Max(0, stop - PyMod(s, n))
    IN  IF size # Inf /\ len > size - n_read THEN size - n_read ELSE len

\* ------------------------------------- the incremental decoder (text pipe)
\* codecs.getincrementaldecoder("utf-8")().decode(data), for code points below
\* 2048: `state` is the bytes of an unfinished character kept from the data of
\* before (getstate()).  A byte that cannot start or continue a character
\* raises UnicodeDecodeError.
RECURSIVE DecodeFrom(_, _, _)
DecodeFrom(state, data, acc) ==
    IF data = <<>> THEN [chars |-> acc, state |-> state, used |-> 0, error |-> FALSE]
    ELSE LET b == Head(data)
         IN  IF state = <<>>
             THEN IF b < 128 THEN DecodeFrom(<<>>, Tail(data), Append(acc, b))
                  ELSE IF b >= 192 THEN DecodeFrom(<<b>>, Tail(data), acc)
                  ELSE [chars |-> acc, state |-> state, used |-> 0, error |-> TRUE]
             ELSE IF b >= 128 /\ b < 192
                  THEN DecodeFrom(<<>>, Tail(data),
                                  Append(acc, (state[1] - 192) * 64 + (b - 128)))
                  ELSE [chars |-> acc, state |-> state, used |-> 0, error |-> TRUE]

\* lines 716-726: decode byte after byte and stop after the byte that yields "\n"
RECURSIVE ScanNewline(_, _, _, _)
ScanNewline(state, data, acc, used) ==
    IF data = <<>> THEN [chars |-> acc, state |-> state, used |-> used, error |-> FALSE]
    ELSE LET d == DecodeFrom(state, <<Head(data)>>, <<>>)
         IN  IF d.error THEN [d EXCEPT !.chars = acc]
             ELSE IF d.chars = <<NL>>
             THEN [chars |-> acc \o d.chars, state |-> d.state, used |-> used + 1,
                   error |-> FALSE]
             ELSE ScanNewline(d.state, Tail(data), acc \o d.chars, used + 1)

\* lines 729-742: decode byte after byte and stop once `missing` characters
\* (at least) are decoded
\* (Variant: all the data are decoded and reported as used.)
MutScanSize(state, data, acc, used, missing) ==
    [DecodeFrom(state, data, acc) EXCEPT !.used = Len(data)]
RECURSIVE ScanSize(_, _, _, _, _)
ScanSize(state, data, acc, used, missing) ==
    IF data = <<>> THEN [chars |-> acc, state |-> state, used |-> used, error |-> FALSE]
    ELSE LET d == DecodeFrom(state, <<Head(data)>>, <<>>)
         IN  IF d.error THEN [d EXCEPT !.chars = acc]
             ELSE IF Len(acc) + Len(d.chars) >= missing
             THEN [chars |-> acc \o d.chars, state |-> d.state, used |-> used + 1,
                   error |-> FALSE]
             ELSE ScanSize(d.state, Tail(data), acc \o d.chars, used + 1, missing)

\* line 713 and line 715: is there a "\n" among the decoded characters, and is
\* it followed by other characters?
HasNewline(stop_at_newline, chars) == stop_at_newline /\ Contains(chars, NL)
NewlineInside(chars) == IndexOf(chars, NL) # Len(chars) - 1

\* The generator object of __incremental_chunck_decoder, suspended at a yield.
NewGenerator == [state |-> <<>>, decoded_chars |-> 0, running |-> TRUE]

\* read_generator.send(data), lines 708-748: one turn of the generator loop.
\* The result holds the yielded (used, chars) and the generator afterwards.
GeneratorSend(gen, data, maxsize, stop_at_newline) ==
    LET whole == [DecodeFrom(gen.state, data, <<>>) EXCEPT !.used = Len(data)]
        nl    == ~whole.error /\ HasNewline(stop_at_newline, whole.chars)
        line  == IF nl /\ NewlineInside(whole.chars)
                 THEN ScanNewline(gen.state, data, <<>>, 0)
                 ELSE whole
        cut   == IF ~line.error /\ gen.decoded_chars + Len(line.chars) > maxsize
                 THEN ScanSize(gen.state, data, <<>>, 0, maxsize - gen.decoded_chars)
                 ELSE line
        n     == gen.decoded_chars + Len(cut.chars)
    IN  IF ~gen.running
        THEN [raised |-> "StopIteration", used |-> 0, chars |-> <<>>, gen |-> gen]
        ELSE IF cut.error
        THEN [raised |-> "UnicodeDecodeError", used |-> 0, chars |-> <<>>, gen |-> gen]
        ELSE [raised |-> "none", used |-> cut.used, chars |-> cut.chars,
              gen |-> [state |-> cut.state, decoded_chars |-> n,
                       running |-> ~nl /\ ~(n >= maxsize)]]

\* --------------------------------------------------------------- initial
WIdle == [pc |-> "idle", data |-> <<>>, chars |-> 0, extra |-> <<>>, done |-> 0, cond |-> FALSE,
          available |-> 0, next_packet |-> 0, notify |-> FALSE,
          pos |-> 0, result |-> "none", ret |-> 0, fits |-> FALSE,
          occ_in |-> 0, occ_out |-> 0]

RIdle == [pc |-> "idle", op |-> "read", size |-> 0, buffer |-> <<>>, read |-> 0,
          mid |-> FALSE, off |-> 0, len |-> 0, packet |-> <<>>,
          notify |-> FALSE, brk |-> FALSE, result |-> "none", ret |-> <<>>,
          data_blocks |-> <<>>, chars |-> <<>>, gen |-> NewGenerator]

HInit == [capacity |-> 0, text |-> TextPayload, received |-> <<>>,
          w_closed |-> FALSE, w_total |-> 0, w_chars |-> 0, w_fits |-> FALSE,
          r_closed |-> FALSE, r_after_close |-> FALSE, r_occupied |-> 0, r_start |-> 0,
          blocked |-> FALSE, collected |-> <<>>, v_result |-> "none",
          u_op |-> "none", u_result |-> "none"]

\* ----------------------------------------------- better_threading.py
Fallen == 1..MaxFallen

\* The state of the exit handler once lines 124-129 have built its locals and
\* lines 191-194 have started its three threads.  status[t] tells whether
\* FallenThread t has been constructed and started; _new_fallen was set by
\* every construction (line 95) and nothing has cleared it yet.
SftInit(status) ==
    [status |-> status,
     alive0 |-> {t \in Fallen : status[t] = "alive"},
     new_fallen |-> (\E t \in Fallen : status[t] # "uncreated"),
     activation_lock |-> "none",
     finalizing_event |-> [t \in Fallen |-> FALSE],
     finalizer |-> [t \in Fallen |-> "none"],
     alive_finalizers |-> {},
     new_finalizing |-> FALSE,
     finished |-> <<FALSE, FALSE>>,
     checker_event |-> FALSE,
     s |-> [pc |-> "test", alive_threads |-> {}, t |-> 0],
     a |-> [pc |-> "test", copy |-> {}, dead_finalizers |-> {}],
     k |-> "wait",
     returned |-> FALSE]

\* While the pipes are exercised the exit handler has not been called: only
\* the class fields of FallenThread exist (lines 81-82), and no instance.
NoFallen == [new_fallen |-> FALSE, activation_lock |-> "none"]

InitFields(k, cap, text) ==
    /\ kind = k
    /\ buffer = [i \in 1..cap |-> 0]
    /\ start = 0
    /\ end = 0
    /\ closed = FALSE
    /\ read_event = FALSE
    /\ write_event = FALSE
    /\ read_lock = "none"
    /\ write_lock = "none"
    /\ extra = <<>>
    /\ total = 0
    /\ read = 0
    /\ w = WIdle
    /\ r = RIdle
    /\ c = "idle"
    /\ h = [HInit EXCEPT !.capacity = cap, !.text = text]

InitWith(k, cap, text) == InitFields(k, cap, text) /\ sft = NoFallen /\ parked = WIdle

InitPipe(k, cap) == InitWith(k, cap, TextPayload)

Init == \E cap \in 1..MaxCap : InitPipe("bytes", cap)

\* ================================================================ close()
\* close(), line 483: the call is made; the thread now wants the write lock.
C_Call ==
    /\ c = "idle"
    /\ c' = "acquire"
    /\ UNCHANGED <<sft, parked, pipe, read_lock, write_lock, w, r, h>>

\* close(), lines 484-485: the write lock is taken and the flag is set.
C_SetClosed ==
    /\ c = "acquire"
    /\ LockFree(write_lock)
    /\ write_lock' = "closer"
    /\ closed' = CloseSets(closed)
    /\ c' = "set_write"
    /\ h' = IF r.pc = "wait" /\ start = end /\ ~closed
            THEN [h EXCEPT !.blocked = TRUE, !.collected = Slice(r.buffer, 0, r.read)]
            ELSE h
    /\ UNCHANGED <<sft, parked, kind, extra, total, read, buffer, start, end, read_event, write_event, read_lock, w, r>>

\* close(), line 486
C_SetWriteEvent ==
    /\ c = "set_write"
    /\ write_event' = TRUE
    /\ c' = "set_read"
    /\ UNCHANGED <<sft, parked, kind, extra, total, read, buffer, start, end, closed, read_event, read_lock, write_lock, w, r, h>>

\* close(), line 487, and the release of the write lock
C_SetReadEvent ==
    /\ c = "set_read"
    /\ read_event' = TRUE
    /\ write_lock' = "none"
    /\ c' = "idle"
    /\ UNCHANGED <<sft, parked, kind, extra, total, read, buffer, start, end, closed, write_event, read_lock, w, r, h>>

\* ================================================== BytesBuffer.write()
\* The writer thread calls write(data) with the next n bytes of its payload.
W_Call(n) ==
    /\ kind = "bytes"
    /\ w.pc = "idle"
    /\ w.pos + n <= MaxBytes
    /\ w' = [WIdle EXCEPT !.pc = "acquire", !.pos = w.pos,
                          !.data = SubSeq(Payload, w.pos + 1, w.pos + n)]
    /\ h' = [h EXCEPT !.w_closed = closed]
    /\ UNCHANGED <<sft, parked, pipe, read_lock, write_lock, r, c>>

\* write(), lines 519-522: take the write lock, fail if the pipe is closed.
\* h.w_fits remembers whether the payload fitted the free space at that moment.
W_Enter ==
    /\ kind = "bytes"
    /\ w.pc = "acquire"
    /\ LockFree(write_lock)
    /\ IF WriteRaises(closed)
       THEN /\ w' = [WIdle EXCEPT !.result = "ClosedError", !.pos = w.pos]
            /\ UNCHANGED write_lock
       ELSE /\ w' = [w EXCEPT !.pc = "loop"]
            /\ write_lock' = "writer"
    /\ h' = [h EXCEPT !.w_fits = (Len(w.data) <= Len(buffer) - (end - start))]
    /\ UNCHANGED <<sft, parked, pipe, read_lock, r, c>>

\* write(), line 524 (loop test) and line 548 (return done)
W_Loop ==
    /\ kind = "bytes"
    /\ w.pc = "loop"
    /\ IF WriteContinues(w.done, Len(w.data), closed)
       THEN /\ w' = [w EXCEPT !.pc = "avail_cond"]
            /\ UNCHANGED write_lock
       ELSE /\ w' = [WIdle EXCEPT !.result = "ok", !.ret = w.done,
                                  !.pos = w.pos + w.done]
            /\ write_lock' = "none"
    /\ UNCHANGED <<sft, parked, pipe, read_lock, r, c, h>>

\* write(), line 526, first the condition of the conditional expression
W_AvailCond ==
    /\ w.pc = "avail_cond"
    /\ w' = [w EXCEPT !.pc = "avail", !.cond = WriteCond(start, end)]
    /\ UNCHANGED <<sft, parked, pipe, read_lock, write_lock, r, c, h>>

\* write(), line 526, then the selected operand and the comparison with 0
W_Avail ==
    /\ w.pc = "avail"
    /\ LET av == Available(w.cond, start, end, Len(buffer))
       IN  w' = [w EXCEPT !.available = av,
                          !.pc = IF av = 0 THEN "wait" ELSE "packet"]
    /\ UNCHANGED <<sft, parked, pipe, read_lock, write_lock, r, c, h>>

\* write(), lines 527-529: Event.wait() returns once the flag is set
W_Wait ==
    /\ w.pc = "wait"
    /\ write_event
    /\ IF closed
       THEN /\ w' = [WIdle EXCEPT !.result = "ok", !.ret = w.done,
                                  !.pos = w.pos + (IF kind = "text" THEN w.chars ELSE w.done)]
            /\ write_lock' = "none"
       ELSE /\ w' = [w EXCEPT !.pc = "clear"]
            /\ UNCHANGED write_lock
    /\ UNCHANGED <<sft, parked, pipe, read_lock, r, c, h>>

\* write(), line 530
W_Clear ==
    /\ w.pc = "clear"
    /\ write_event' = FALSE
    /\ w' = [w EXCEPT !.pc = "avail_cond"]
    /\ UNCHANGED <<sft, parked, kind, extra, total, read, buffer, start, end, closed, read_event, read_lock, write_lock, r, c, h>>

\* write(), lines 532-541: choose the packet and copy it into the storage
W_Packet ==
    /\ w.pc = "packet"
    /\ LET n   == Len(buffer)
           len == WritePacketLen(start, end, n, w.available, w.done, Len(w.data))
           pkt == SubSeq(w.data, w.done + 1, w.done + len)
       IN  /\ buffer' = SliceAssign(buffer, PyMod(end, n), PyMod(end, n) + len, pkt)
           /\ w' = [w EXCEPT !.pc = "notify", !.next_packet = len]
    /\ UNCHANGED <<sft, parked, kind, extra, total, read, start, end, closed, read_event, write_event, read_lock, write_lock, r, c, h>>

\* write(), line 542
W_Notify ==
    /\ w.pc = "notify"
    /\ w' = [w EXCEPT !.pc = "advance", !.notify = WriteNotify(start, end)]
    /\ UNCHANGED <<sft, parked, pipe, read_lock, write_lock, r, c, h>>

\* write(), line 543
W_Advance ==
    /\ w.pc = "advance"
    /\ end' = end + w.next_packet
    /\ w' = [w EXCEPT !.pc = "set"]
    /\ UNCHANGED <<sft, parked, kind, extra, total, read, buffer, start, closed, read_event, write_event, read_lock, write_lock, r, c, h>>

\* write(), lines 544-546
W_Set ==
    /\ w.pc = "set"
    /\ read_event' = (read_event \/ w.notify)
    /\ w' = [w EXCEPT !.pc = "loop", !.done = w.done + w.next_packet]
    /\ UNCHANGED <<sft, parked, kind, extra, total, read, buffer, start, end, closed, write_event, read_lock, write_lock, r, c, h>>

\* Two threads use the writing side: the other thread runs from now on.  Its
\* position and locals come back into w, those of the thread that ran go to
\* parked.
W_Switch ==
    /\ kind = "bytes"
    /\ w' = parked
    /\ parked' = w
    /\ UNCHANGED <<sft, pipe, read_lock, write_lock, r, c, h>>

\* ================================================== BytesBuffer.writable
\* lines 475-477: the write lock is taken and the cursors are compared; an
\* empty ring makes the property return the length of the storage.  occ_in
\* and occ_out remember how many bytes the ring held when the cursors were
\* compared and when the value was computed.
B_WritableCond ==
    /\ kind = "bytes"
    /\ w.pc = "idle"
    /\ LockFree(write_lock)
    /\ IF end = start
       THEN /\ w' = [WIdle EXCEPT !.pos = w.pos, !.result = "writable", !.ret = Len(buffer)]
            /\ UNCHANGED write_lock
       ELSE /\ w' = [WIdle EXCEPT !.pos = w.pos, !.pc = "writable", !.occ_in = end - start]
            /\ write_lock' = "writer"
    /\ UNCHANGED <<sft, parked, pipe, read_lock, r, c, h>>

\* line 478: the cursors are read again for the value returned
B_Writable ==
    /\ w.pc = "writable"
    /\ w' = [WIdle EXCEPT !.pos = w.pos, !.result = "writable",
                          !.ret = PyMod(start - end, Len(buffer)),
                          !.occ_in = w.occ_in, !.occ_out = end - start]
    /\ write_lock' = "none"
    /\ UNCHANGED <<sft, parked, pipe, read_lock, r, c, h>>

\* ================================================== StringBuffer.write()
\* The loop body of StringBuffer.write(), lines 841-861, is the text of lines
\* 526-546 of BytesBuffer.write(): W_AvailCond .. W_Set above model both.

\* The writer thread calls write(data) with the next n characters of its text;
\* line 825 encodes them.
TW_Call(n) ==
    /\ kind = "text"
    /\ w.pc = "idle"
    /\ w.pos + n <= MaxChars
    /\ w' = [WIdle EXCEPT !.pc = "acquire", !.pos = w.pos, !.chars = n,
                          !.data = Encode(SubSeq(h.text, w.pos + 1, w.pos + n))]
    /\ h' = [h EXCEPT !.w_closed = closed, !.w_total = total, !.w_chars = n]
    /\ UNCHANGED <<sft, parked, pipe, read_lock, write_lock, r, c>>

\* write(), lines 827-833: take the write lock, fail if the pipe is closed,
\* else put the staged bytes in front of the new ones and empty the stage.
TW_Enter ==
    /\ kind = "text"
    /\ w.pc = "acquire"
    /\ write_lock = "none"
    /\ IF WriteRaises(closed)
       THEN /\ w' = [WIdle EXCEPT !.result = "ClosedError", !.pos = w.pos]
            /\ UNCHANGED <<write_lock, extra>>
       ELSE /\ w' = [w EXCEPT !.pc = "t_writable_cond", !.data = extra \o w.data,
                              !.extra = <<>>]
            /\ extra' = <<>>
            /\ write_lock' = "writer"
    /\ UNCHANGED <<sft, parked, kind, buffer, start, end, closed, read_event, write_event,
                        total, read, read_lock, r, c, h>>

\* write(), line 835, calling the property `writable`, line 784
TW_WritableCond ==
    /\ w.pc = "t_writable_cond"
    /\ w' = [w EXCEPT !.pc = "t_writable", !.cond = (end = start)]
    /\ UNCHANGED <<sft, parked, pipe, read_lock, write_lock, r, c, h>>

\* `writable`, lines 785-786, and the comparison of line 835
TW_Writable ==
    /\ w.pc = "t_writable"
    /\ LET writable == IF w.cond THEN Len(buffer) ELSE PyMod(start - end, Len(buffer))
       IN  w' = [w EXCEPT !.pc = IF w.chars <= writable THEN "t_avail_cond" ELSE "loop",
                          !.fits = (w.chars <= writable)]
    /\ UNCHANGED <<sft, parked, pipe, read_lock, write_lock, r, c, h>>

\* write(), line 836, the condition of the conditional expression
TW_AvailCond ==
    /\ w.pc = "t_avail_cond"
    /\ w' = [w EXCEPT !.pc = "t_avail", !.cond = WriteCond(start, end)]
    /\ UNCHANGED <<sft, parked, pipe, read_lock, write_lock, r, c, h>>

\* write(), lines 836-837: keep what fits the free space, stage the rest
TW_Avail ==
    /\ w.pc = "t_avail"
    /\ LET av == Available(w.cond, start, end, Len(buffer))
       IN  w' = [w EXCEPT !.pc = "loop", !.available = av,
                          !.data = Slice(w.data, 0, av),
                          !.extra = Slice(w.data, av, Len(w.data))]
    /\ UNCHANGED <<sft, parked, pipe, read_lock, write_lock, r, c, h>>

\* write(), line 839: the loop test (the closed flag is not part of it)
TW_Loop ==
    /\ kind = "text"
    /\ w.pc = "loop"
    /\ w' = [w EXCEPT !.pc = IF w.done < Len(w.data) THEN "avail_cond" ELSE "t_finish"]
    /\ UNCHANGED <<sft, parked, pipe, read_lock, write_lock, r, c, h>>

\* write(), lines 863-864
TW_Finish ==
    /\ w.pc = "t_finish"
    /\ extra' = w.extra
    /\ total' = WriteTotal(total, w.chars)
    /\ w' = [w EXCEPT !.pc = "t_return"]
    /\ UNCHANGED <<sft, parked, kind, buffer, start, end, closed, read_event, write_event,
                        read, read_lock, write_lock, r, c, h>>

\* write(), lines 865-868
TW_Return ==
    /\ w.pc = "t_return"
    /\ read_event' = (read_event \/ end = start)
    /\ w' = [WIdle EXCEPT !.result = "ok", !.ret = w.chars, !.pos = w.pos + w.chars]
    /\ write_lock' = "none"
    /\ UNCHANGED <<sft, parked, kind, buffer, start, end, closed, write_event, extra, total, read,
                        read_lock, r, c, h>>

\* ================================= BytesBuffer.read/readline/readinto
ReadOps == {"read", "readline", "readinto"}

\* lines 550-563 (592-600, 629-642): the call, the read lock, the entry test.
\* The locals are reset; for readinto, size is the length of the caller's buffer.
R_Call(op, size) ==
    /\ kind = "bytes"
    /\ r.pc = "idle"
    /\ read_lock = "none"
    /\ op = "readinto" => size # Inf
    /\ IF ReadRaises(closed, start, end)
       THEN /\ r' = [RIdle EXCEPT !.op = op, !.size = size, !.result = "ClosedError"]
            /\ UNCHANGED read_lock
       ELSE /\ r' = [RIdle EXCEPT !.op = op, !.size = size, !.pc = "loop",
                                  !.buffer = NewBuffer(size)]
            /\ read_lock' = "reader"
    /\ h' = [h EXCEPT !.r_closed = closed, !.r_after_close = (closed /\ c = "idle"),
                      !.r_occupied = end - start, !.r_start = start,
                      !.blocked = FALSE, !.collected = <<>>]
    /\ UNCHANGED <<sft, parked, pipe, write_lock, w, c>>

\* line 565 (602, 644): the outer loop test; lines 590 (627, 676): the return
R_Loop ==
    /\ r.pc = "loop"
    /\ IF ~r.brk /\ ReadContinues(r.read, r.size, closed)
       THEN /\ r' = [r EXCEPT !.pc = "inner"]
            /\ UNCHANGED <<read_lock, h>>
       ELSE /\ r' = [RIdle EXCEPT !.op = r.op, !.size = r.size, !.result = "ok",
                                  !.ret = ReadReturn(r.buffer, r.read)]
            /\ read_lock' = "none"
            /\ h' = [h EXCEPT !.received = h.received \o ReadReturn(r.buffer, r.read)]
    /\ UNCHANGED <<sft, parked, pipe, write_lock, w, c>>

\* line 567 (604, 646): the inner loop test
R_Inner ==
    /\ r.pc = "inner"
    /\ r' = [r EXCEPT !.pc = IF end - start = 0 /\ ~closed THEN "wait" ELSE "nonempty"]
    /\ UNCHANGED <<sft, parked, pipe, read_lock, write_lock, w, c, h>>

\* line 568: Event.wait() returns once the flag is set
R_Wait ==
    /\ r.pc = "wait"
    /\ read_event
    /\ r' = [r EXCEPT !.pc = "clear"]
    /\ UNCHANGED <<sft, parked, pipe, read_lock, write_lock, w, c, h>>

\* line 569
R_Clear ==
    /\ r.pc = "clear"
    /\ read_event' = FALSE
    /\ r' = [r EXCEPT !.pc = "inner"]
    /\ UNCHANGED <<sft, parked, kind, extra, total, read, buffer, start, end, closed, write_event, read_lock, write_lock, w, c, h>>

\* line 571: is there anything to read?  (else: packet = b"", line 581)
R_NonEmpty ==
    /\ r.pc = "nonempty"
    /\ r' = IF end # start
            THEN [r EXCEPT !.pc = "compare"]
            ELSE [r EXCEPT !.pc = "notify", !.off = 0, !.len = 0, !.packet = <<>>]
    /\ UNCHANGED <<sft, parked, pipe, read_lock, write_lock, w, c, h>>

\* line 572: does the run stop before the end of the storage?
R_Compare ==
    /\ r.pc = "compare"
    /\ r' = [r EXCEPT !.pc = "packet",
                      !.mid = (PyMod(start, Len(buffer)) < PyMod(end, Len(buffer)))]
    /\ UNCHANGED <<sft, parked, pipe, read_lock, write_lock, w, c, h>>

\* lines 573-579: the packet is a view of the storage (no byte is copied yet);
\* readline, lines 660-665, copies it at once and cuts it after the first "\n".
R_Packet ==
    /\ r.pc = "packet"
    /\ LET n    == Len(buffer)
           off  == PyMod(start, n)
           len  == PacketLen(r.mid, start, end, n, r.size, r.read)
           copy == Slice(buffer, off, off + len)
           line == LineCut(copy)
       IN  r' = IF r.op = "readline"
                THEN [r EXCEPT !.pc = "notify", !.off = off, !.len = Len(line), !.packet = line]
                ELSE [r EXCEPT !.pc = "notify", !.off = off, !.len = len, !.packet = <<>>]
    /\ UNCHANGED <<sft, parked, pipe, read_lock, write_lock, w, c, h>>

\* line 583 (620, 667)
R_Notify ==
    /\ r.pc = "notify"
    /\ r' = [r EXCEPT !.pc = "copy", !.notify = ReadNotify(start, end, Len(buffer))]
    /\ UNCHANGED <<sft, parked, pipe, read_lock, write_lock, w, c, h>>

\* line 584 (621, 668): the bytes of the packet are copied out of the storage
R_Copy ==
    /\ r.pc = "copy"
    /\ LET bytes == IF r.op = "readline" THEN r.packet
                    ELSE Slice(buffer, r.off, r.off + r.len)
       IN  r' = [r EXCEPT !.pc = "advance",
                          !.buffer = SliceAssign(r.buffer, r.read, r.read + Len(bytes), bytes),
                          !.brk = (r.op = "readline" /\ Contains(bytes, NL))]
    /\ UNCHANGED <<sft, parked, pipe, read_lock, write_lock, w, c, h>>

\* line 585 (622, 669)
R_Advance ==
    /\ r.pc = "advance"
    /\ start' = start + r.len
    /\ r' = [r EXCEPT !.pc = "set"]
    /\ UNCHANGED <<sft, parked, kind, extra, total, read, buffer, end, closed, read_event, write_event, read_lock, write_lock, w, c, h>>

\* lines 586-588 (623-625, 670-674)
R_Set ==
    /\ r.pc = "set"
    /\ write_event' = (write_event \/ r.notify)
    /\ r' = [r EXCEPT !.pc = "loop", !.read = r.read + r.len]
    /\ UNCHANGED <<sft, parked, kind, extra, total, read, buffer, start, end, closed, read_event, read_lock, write_lock, w, c, h>>

\* ===================================== StringBuffer.read/readline
TextReadOps == {"read", "readline"}

\* lines 891-905 (942-956): the call, the read lock, the entry test, and the
\* generator, started with next().
TR_Call(op, size) ==
    /\ kind = "text"
    /\ r.pc = "idle"
    /\ read_lock = "none"
    /\ IF ReadRaises(closed, start, end)
       THEN /\ r' = [RIdle EXCEPT !.op = op, !.size = size, !.result = "ClosedError"]
            /\ UNCHANGED read_lock
       ELSE /\ r' = [RIdle EXCEPT !.op = op, !.size = size, !.pc = "t_loop"]
            /\ read_lock' = "reader"
    /\ h' = [h EXCEPT !.r_closed = closed, !.r_after_close = (closed /\ c = "idle"),
                      !.r_occupied = end - start, !.r_start = start,
                      !.blocked = FALSE, !.collected = <<>>]
    /\ UNCHANGED <<sft, parked, pipe, write_lock, w, c>>

\* line 907 (958): the outer loop test, with the break of line 989;
\* line 940 (992): the return
TR_Loop ==
    /\ r.pc = "t_loop"
    /\ IF ~r.brk /\ ReadContinues(r.read, r.size, closed)
       THEN /\ r' = [r EXCEPT !.pc = "t_inner"]
            /\ UNCHANGED <<read_lock, h>>
       ELSE /\ r' = [RIdle EXCEPT !.op = r.op, !.size = r.size, !.result = "ok",
                                  !.ret = r.data_blocks]
            /\ read_lock' = "none"
            /\ h' = [h EXCEPT !.received = h.received \o r.data_blocks]
    /\ UNCHANGED <<sft, parked, pipe, write_lock, w, c>>

\* line 909 (960), first operand: is the ring empty?
TR_Inner ==
    /\ r.pc = "t_inner"
    /\ r' = [r EXCEPT !.pc = IF end - start = 0 THEN "t_inner_extra" ELSE "t_flush"]
    /\ UNCHANGED <<sft, parked, pipe, read_lock, write_lock, w, c, h>>

\* line 909 (960), second and third operand: nothing staged, and not closed?
TR_InnerExtra ==
    /\ r.pc = "t_inner_extra"
    /\ r' = [r EXCEPT !.pc = IF extra = <<>> /\ ~closed THEN "t_wait" ELSE "t_flush"]
    /\ UNCHANGED <<sft, parked, pipe, read_lock, write_lock, w, c, h>>

\* line 910 (961): Event.wait() returns once the flag is set
TR_Wait ==
    /\ r.pc = "t_wait"
    /\ read_event
    /\ r' = [r EXCEPT !.pc = "t_clear"]
    /\ UNCHANGED <<sft, parked, pipe, read_lock, write_lock, w, c, h>>

\* line 911 (962)
TR_Clear ==
    /\ r.pc = "t_clear"
    /\ read_event' = FALSE
    /\ r' = [r EXCEPT !.pc = "t_inner"]
    /\ UNCHANGED <<sft, parked, kind, extra, total, read, buffer, start, end, closed, write_event, read_lock, write_lock, w, c, h>>

\* line 913 (964), first operand: is the ring empty?
TR_Flush ==
    /\ r.pc = "t_flush"
    /\ r' = [r EXCEPT !.pc = IF end - start = 0 THEN "t_flush_extra" ELSE "t_nonempty"]
    /\ UNCHANGED <<sft, parked, pipe, read_lock, write_lock, w, c, h>>

\* line 913 (964), second operand: is anything staged?
TR_FlushExtra ==
    /\ r.pc = "t_flush_extra"
    /\ r' = [r EXCEPT !.pc = IF extra # <<>> THEN "t_extra_lock" ELSE "t_nonempty"]
    /\ UNCHANGED <<sft, parked, pipe, read_lock, write_lock, w, c, h>>

\* __write_extra(), line 875, called at line 914 (965) by the reader, which
\* holds the read lock: the write lock is taken.
TR_ExtraLock ==
    /\ r.pc = "t_extra_lock"
    /\ LockFree(write_lock)
    /\ write_lock' = "reader"
    /\ r' = [r EXCEPT !.pc = "t_write_extra"]
    /\ UNCHANGED <<sft, parked, pipe, read_lock, w, c, h>>

\* __write_extra(), lines 876-889: move as many staged bytes as fit into the
\* ring, in two pieces when they go round the end of the storage, and release
\* the write lock.
TR_WriteExtra ==
    /\ r.pc = "t_write_extra"
    /\ write_lock' = "none"
    /\ LET n         == Len(buffer)
           available == Available(WriteCond(start, end), start, end, n)
           bdata     == Slice(extra, 0, available)
           br        == IF PyMod(0 - end, n) = 0 THEN n ELSE PyMod(0 - end, n)
           bdata1    == Slice(bdata, 0, br)
           bdata2    == Slice(bdata, br, Len(bdata))
           at        == PyMod(end, n)
           one       == SliceAssign(buffer, at, at + Len(bdata1), bdata1)
       IN  /\ extra' = Slice(extra, available, Len(extra))
           /\ buffer' = IF bdata = <<>> THEN buffer
                        ELSE IF PyMod(start, n) > at
                        THEN SliceAssign(buffer, at, at + Len(bdata), bdata)
                        ELSE SliceAssign(one, 0, Len(bdata2), bdata2)
           /\ end' = end + Len(bdata)
    /\ r' = [r EXCEPT !.pc = "t_nonempty"]
    /\ UNCHANGED <<sft, parked, kind, total, read, start, closed, read_event, write_event, read_lock, w, c, h>>

\* The bytes of the packet go to the generator, line 928 (979); its answer is
\* kept, line 929-930 (980-981).  An exception of the generator ends the call.
Sent(data) ==
    LET a == GeneratorSend(r.gen, data, r.size, r.op = "readline")
    IN  IF a.raised # "none"
        THEN [RIdle EXCEPT !.op = r.op, !.size = r.size, !.result = a.raised]
        ELSE [r EXCEPT !.pc = "t_notify", !.gen = a.gen, !.len = a.used,
                       !.chars = a.chars, !.data_blocks = r.data_blocks \o a.chars]

\* line 916 (967): is there anything to read?  Else the packet is empty,
\* line 926 (977).
TR_NonEmpty ==
    /\ r.pc = "t_nonempty"
    /\ IF end # start
       THEN r' = [r EXCEPT !.pc = "t_compare"] /\ UNCHANGED read_lock
       ELSE r' = Sent(<<>>) /\ read_lock' = IF r'.pc = "idle" THEN "none" ELSE read_lock
    /\ UNCHANGED <<sft, parked, pipe, write_lock, w, c, h>>

\* line 917 (968): does the run stop before the end of the storage?
TR_Compare ==
    /\ r.pc = "t_compare"
    /\ r' = [r EXCEPT !.pc = "t_packet",
                      !.mid = (PyMod(start, Len(buffer)) < PyMod(end, Len(buffer)))]
    /\ UNCHANGED <<sft, parked, pipe, read_lock, write_lock, w, c, h>>

\* lines 918-924 (969-975): the packet; line 928 (979): its bytes are copied
\* and sent to the generator.
TR_Packet ==
    /\ r.pc = "t_packet"
    /\ LET n   == Len(buffer)
           off == PyMod(start, n)
           len == PacketLen(r.mid, start, end, n, r.size, r.read)
       IN  r' = Sent(Slice(buffer, off, off + len))
    /\ read_lock' = IF r'.pc = "idle" THEN "none" ELSE read_lock
    /\ UNCHANGED <<sft, parked, pipe, write_lock, w, c, h>>

\* line 932 (983)
TR_Notify ==
    /\ r.pc = "t_notify"
    /\ r' = [r EXCEPT !.pc = "t_advance", !.notify = ReadNotify(start, end, Len(buffer))]
    /\ UNCHANGED <<sft, parked, pipe, read_lock, write_lock, w, c, h>>

\* line 933 (984)
TR_Advance ==
    /\ r.pc = "t_advance"
    /\ start' = start + r.len
    /\ r' = [r EXCEPT !.pc = "t_set"]
    /\ UNCHANGED <<sft, parked, kind, extra, total, read, buffer, end, closed, read_event, write_event, read_lock, write_lock, w, c, h>>

\* lines 934-938 (985-990)
TR_Set ==
    /\ r.pc = "t_set"
    /\ write_event' = (write_event \/ r.notify)
    /\ read' = read + Len(r.chars)
    /\ r' = [r EXCEPT !.pc = "t_loop", !.read = r.read + Len(r.chars),
                      !.brk = (r.op = "readline" /\ r.chars # <<>>
                               /\ r.chars[Len(r.chars)] = NL)]
    /\ UNCHANGED <<sft, parked, kind, extra, total, buffer, start, end, closed, read_event, read_lock, write_lock, w, c, h>>

\* ============================ read()/readline() with a negative size
\* A further thread calls read(size) or readline(size) with size < 0, at any
\* moment.  Lines 551-554 (630-633, 892-895, 943-946): the call raises
\* ValueError; were it not to, it would go on to the `with self.read_lock`.
NegativeSizes == (0 - MaxRead)..(0 - 1)

V_Call(op, size) ==
    /\ h.v_result = "none"
    /\ op \in (IF kind = "text" THEN TextReadOps ELSE {"read", "readline"})
    /\ h' = [h EXCEPT !.v_result = IF SizeRaises(size) THEN "ValueError" ELSE "entered"]
    /\ UNCHANGED <<sft, parked, pipe, read_lock, write_lock, w, r, c>>

\* ------------------------------- seekable, seek, truncate, fileno (both pipes)
\* a pipe that claims to be seekable
MutSeekable == TRUE

\* seekable(), lines 499-500 and 807-808
Seekable == FALSE

\* seek (502-503, 810-811), truncate (511-512, 819-820) and fileno (480-481,
\* 788-789) consist of one `raise OSError(...)`
UnsupportedOps == {"seek", "truncate", "fileno"}

\* A call of one of the four methods by any thread, in any state of the pipe:
\* none of them takes a lock or touches a field.  The history keeps the
\* method and what the call produced.
U_Call(op) ==
    /\ h.u_op = "none"
    /\ h' = [h EXCEPT !.u_op = op,
                      !.u_result = IF op \in UnsupportedOps THEN "OSError"
                                   ELSE IF Seekable THEN "True" ELSE "False"]
    /\ UNCHANGED <<sft, parked, pipe, read_lock, write_lock, w, r, c>>

\* ------------------------------------------------- save_fallen_threads
\* Each `with checker_lock:` and `with finalization_lock:` block is one step:
\* nothing inside such a block waits, and every access to `finished` is made
\* under checker_lock.  Everything else is one step per shared access.

\* line 187: all(finished)
AllFinished(f) == f[1] /\ f[2]

InitShutdown ==
    /\ InitFields("shutdown", 1, TextPayload)
    /\ parked = WIdle
    /\ \E status \in [Fallen -> {"uncreated", "created", "alive"}] : sft = SftInit(status)

\* FallenThread.__init__, lines 85-95, by some thread that is still running
T_Create(t) ==
    /\ kind = "shutdown"
    /\ sft.status[t] = "uncreated"
    /\ sft.activation_lock = "none"
    /\ sft' = [sft EXCEPT !.status[t] = "created", !.new_fallen = TRUE]
    /\ UNCHANGED <<parked, pipe, read_lock, write_lock, w, r, c, h>>

\* Thread.start() of a FallenThread: is_alive() is true from now on
T_Start(t) ==
    /\ kind = "shutdown"
    /\ sft.status[t] = "created"
    /\ sft' = [sft EXCEPT !.status[t] = "alive"]
    /\ UNCHANGED <<parked, pipe, read_lock, write_lock, w, r, c, h>>

\* _start_finalizers, line 136
S_Test ==
    /\ kind = "shutdown"
    /\ sft.s.pc = "test"
    /\ sft' = [sft EXCEPT !.s.pc = IF ~sft.new_fallen THEN "idle" ELSE "wait"]
    /\ UNCHANGED <<parked, pipe, read_lock, write_lock, w, r, c, h>>

\* lines 137-139
S_Idle ==
    /\ sft.s.pc = "idle"
    /\ sft' = [sft EXCEPT !.finished[1] = TRUE, !.checker_event = TRUE, !.s.pc = "wait"]
    /\ UNCHANGED <<parked, pipe, read_lock, write_lock, w, r, c, h>>

\* line 140
S_Wait ==
    /\ sft.s.pc = "wait"
    /\ sft.new_fallen
    /\ sft' = [sft EXCEPT !.s.pc = "unfinish"]
    /\ UNCHANGED <<parked, pipe, read_lock, write_lock, w, r, c, h>>

\* lines 141-142
S_Unfinish ==
    /\ sft.s.pc = "unfinish"
    /\ sft' = [sft EXCEPT !.finished[1] = FALSE, !.s.pc = "lock"]
    /\ UNCHANGED <<parked, pipe, read_lock, write_lock, w, r, c, h>>

\* lines 144-146: take the activation lock, clear the class event, list the
\* FallenThreads that are alive
S_Lock ==
    /\ sft.s.pc = "lock"
    /\ sft.activation_lock = "none"
    /\ sft' = [sft EXCEPT !.activation_lock = "starter", !.new_fallen = FALSE,
                          !.s.alive_threads = {t \in Fallen : sft.status[t] = "alive"},
                          !.s.pc = "for"]
    /\ UNCHANGED <<parked, pipe, read_lock, write_lock, w, r, c, h>>

\* lines 147-149: the next thread of the set, in any order; the end of the
\* loop releases the activation lock
S_For ==
    /\ sft.s.pc = "for"
    /\ IF sft.s.alive_threads = {}
       THEN sft' = [sft EXCEPT !.activation_lock = "none", !.s.pc = "test", !.s.t = 0]
       ELSE \E t \in sft.s.alive_threads :
              sft' = [sft EXCEPT !.s.alive_threads = @ \ {t}, !.s.t = t,
                                 !.s.pc = IF ~sft.finalizing_event[t] THEN "start" ELSE "for"]
    /\ UNCHANGED <<parked, pipe, read_lock, write_lock, w, r, c, h>>

\* lines 150-151: the finalizer thread d of t is started
S_Start ==
    /\ sft.s.pc = "start"
    /\ sft' = [sft EXCEPT !.finalizer[sft.s.t] = "started", !.s.pc = "wait_event"]
    /\ UNCHANGED <<parked, pipe, read_lock, write_lock, w, r, c, h>>

\* line 152
S_WaitEvent ==
    /\ sft.s.pc = "wait_event"
    /\ sft.finalizing_event[sft.s.t]
    /\ sft' = [sft EXCEPT !.s.pc = "add"]
    /\ UNCHANGED <<parked, pipe, read_lock, write_lock, w, r, c, h>>

\* line 153 (a finalizer thread is named after the thread it finalizes)
S_Add ==
    /\ sft.s.pc = "add"
    /\ sft' = [sft EXCEPT !.alive_finalizers = @ \cup {sft.s.t}, !.s.pc = "unfinish_other"]
    /\ UNCHANGED <<parked, pipe, read_lock, write_lock, w, r, c, h>>

\* lines 154-155
S_UnfinishOther ==
    /\ sft.s.pc = "unfinish_other"
    /\ sft' = [sft EXCEPT !.finished[2] = FALSE, !.s.pc = "notify"]
    /\ UNCHANGED <<parked, pipe, read_lock, write_lock, w, r, c, h>>

\* lines 156-157
S_Notify ==
    /\ sft.s.pc = "notify"
    /\ sft' = [sft EXCEPT !.new_finalizing = TRUE, !.s.pc = "for"]
    /\ UNCHANGED <<parked, pipe, read_lock, write_lock, w, r, c, h>>

\* _finalize, line 117, in the finalizer thread of t
F_Set(t) ==
    /\ sft.finalizer[t] = "started"
    /\ sft' = [sft EXCEPT !.finalizing_event[t] = TRUE, !.finalizer[t] = "running"]
    /\ UNCHANGED <<parked, pipe, read_lock, write_lock, w, r, c, h>>

\* _finalize, lines 118-122: the callback returns or raises, the thread ends
F_Done(t) ==
    /\ sft.finalizer[t] = "running"
    /\ sft' = [sft EXCEPT !.finalizer[t] = "done"]
    /\ UNCHANGED <<parked, pipe, read_lock, write_lock, w, r, c, h>>

\* _await_finalizers, line 164
A_Test ==
    /\ kind = "shutdown"
    /\ sft.a.pc = "test"
    /\ sft' = [sft EXCEPT !.a.pc = IF ~sft.new_finalizing THEN "idle" ELSE "wait"]
    /\ UNCHANGED <<parked, pipe, read_lock, write_lock, w, r, c, h>>

\* lines 165-167
A_Idle ==
    /\ sft.a.pc = "idle"
    /\ sft' = [sft EXCEPT !.finished[2] = TRUE, !.checker_event = TRUE, !.a.pc = "wait"]
    /\ UNCHANGED <<parked, pipe, read_lock, write_lock, w, r, c, h>>

\* line 168
A_Wait ==
    /\ sft.a.pc = "wait"
    /\ sft.new_finalizing
    /\ sft' = [sft EXCEPT !.a.pc = "clear"]
    /\ UNCHANGED <<parked, pipe, read_lock, write_lock, w, r, c, h>>

\* lines 169-170
A_Clear ==
    /\ sft.a.pc = "clear"
    /\ sft' = [sft EXCEPT !.new_finalizing = FALSE, !.a.pc = "unfinish"]
    /\ UNCHANGED <<parked, pipe, read_lock, write_lock, w, r, c, h>>

\* lines 171-172
A_Unfinish ==
    /\ sft.a.pc = "unfinish"
    /\ sft' = [sft EXCEPT !.finished[2] = FALSE, !.a.pc = "copy"]
    /\ UNCHANGED <<parked, pipe, read_lock, write_lock, w, r, c, h>>

\* lines 174-175: alive_finalizers.copy()
A_Copy ==
    /\ sft.a.pc = "copy"
    /\ sft' = [sft EXCEPT !.a.copy = sft.alive_finalizers, !.a.dead_finalizers = {},
                          !.a.pc = "join"]
    /\ UNCHANGED <<parked, pipe, read_lock, write_lock, w, r, c, h>>

\* lines 175-177: d.join() returns once the finalizer thread has ended
A_Join ==
    /\ sft.a.pc = "join"
    /\ IF sft.a.copy = {}
       THEN sft' = [sft EXCEPT !.a.pc = "update"]
       ELSE \E d \in sft.a.copy :
              /\ sft.finalizer[d] = "done"
              /\ sft' = [sft EXCEPT !.a.copy = @ \ {d}, !.a.dead_finalizers = @ \cup {d}]
    /\ UNCHANGED <<parked, pipe, read_lock, write_lock, w, r, c, h>>

\* line 178
A_Update ==
    /\ sft.a.pc = "update"
    /\ sft' = [sft EXCEPT !.alive_finalizers = @ \ sft.a.dead_finalizers,
                          !.a.dead_finalizers = {}, !.a.pc = "test"]
    /\ UNCHANGED <<parked, pipe, read_lock, write_lock, w, r, c, h>>

\* _check, line 185
K_Wait ==
    /\ sft.k = "wait"
    /\ sft.checker_event
    /\ sft' = [sft EXCEPT !.k = "check"]
    /\ UNCHANGED <<parked, pipe, read_lock, write_lock, w, r, c, h>>

\* lines 186-189
K_Check ==
    /\ sft.k = "check"
    /\ sft' = IF AllFinished(sft.finished)
              THEN [sft EXCEPT !.k = "done"]
              ELSE [sft EXCEPT !.checker_event = FALSE, !.k = "wait"]
    /\ UNCHANGED <<parked, pipe, read_lock, write_lock, w, r, c, h>>

\* line 195: d.join() returns, and with it save_fallen_threads
M_Join ==
    /\ sft.k = "done"
    /\ ~sft.returned
    /\ sft' = [sft EXCEPT !.returned = TRUE]
    /\ UNCHANGED <<parked, pipe, read_lock, write_lock, w, r, c, h>>

NextShutdown ==
    \/ S_Test \/ S_Idle \/ S_Wait \/ S_Unfinish \/ S_Lock \/ S_For
    \/ S_Start \/ S_WaitEvent \/ S_Add \/ S_UnfinishOther \/ S_Notify
    \/ A_Test \/ A_Idle \/ A_Wait \/ A_Clear \/ A_Unfinish \/ A_Copy \/ A_Join \/ A_Update
    \/ K_Wait \/ K_Check \/ M_Join
    \/ \E t \in Fallen : T_Create(t) \/ T_Start(t) \/ F_Set(t) \/ F_Done(t)

SpecShutdown == InitShutdown /\ [][NextShutdown]_vars

\* ============================================================ specification
Occupied == end - start
Capacity == h.capacity

ReadSizes == (0..MaxRead) \cup {Inf}

WriterStep ==
    \/ W_Enter \/ W_Loop \/ W_AvailCond \/ W_Avail \/ W_Wait \/ W_Clear
    \/ W_Packet \/ W_Notify \/ W_Advance \/ W_Set

ReaderStep ==
    \/ R_Loop \/ R_Inner \/ R_Wait \/ R_Clear \/ R_NonEmpty \/ R_Compare
    \/ R_Packet \/ R_Notify \/ R_Copy \/ R_Advance \/ R_Set

CloserStep == C_SetClosed \/ C_SetWriteEvent \/ C_SetReadEvent

Next ==
    \/ \E n \in 0..MaxBytes : W_Call(n)
    \/ \E op \in ReadOps, size \in ReadSizes : R_Call(op, size)
    \/ C_Call
    \/ WriterStep
    \/ ReaderStep
    \/ CloserStep

Spec == Init /\ [][Next]_vars

\* ----------------------------------------------- producer and consumer
\* One thread writes the whole payload in chunks of any size and then closes
\* the pipe; the other reads chunks of any size until it gets the closed error.
PC_Write == \E n \in 1..MaxBytes : W_Call(n)

PC_Close == w.pc = "idle" /\ w.pos = MaxBytes /\ ~closed /\ C_Call

PC_Read == /\ r.result # "ClosedError"
           /\ \E size \in (1..MaxRead) \cup {Inf} : R_Call("read", size)

NextPC == PC_Write \/ PC_Close \/ PC_Read \/ WriterStep \/ ReaderStep \/ CloserStep

SpecPC == Init /\ [][NextPC]_vars

\* ------------------------------------------- the writing side of both pipes
TextWriterStep ==
    \/ TW_Enter \/ TW_WritableCond \/ TW_Writable \/ TW_AvailCond \/ TW_Avail
    \/ TW_Loop \/ TW_Finish \/ TW_Return

NextText ==
    \/ \E n \in 0..MaxChars : TW_Call(n)
    \/ TextWriterStep

InitPipes == \E k \in {"bytes", "text"}, cap \in 1..MaxCap : InitPipe(k, cap)

SpecPipes == InitPipes /\ [][Next \/ NextText]_vars

\* ------------------------------------------------------- the text pipe
\* The texts the writer thread may be given, as code points: TextPayload; a
\* line terminator followed by two-byte characters; and a line of one-byte
\* characters that ends with its terminator.
NewlineFirst == [k \in 1..MaxChars |-> IF k = 1 THEN NL ELSE 232 + k]
AsciiLine == [k \in 1..MaxChars |-> IF k = MaxChars THEN NL ELSE 96 + k]
Texts == {TextPayload, NewlineFirst, AsciiLine}

SharedWriterStep ==
    \/ W_AvailCond \/ W_Avail \/ W_Wait \/ W_Clear
    \/ W_Packet \/ W_Notify \/ W_Advance \/ W_Set

TextReaderStep ==
    \/ TR_Loop \/ TR_Inner \/ TR_InnerExtra \/ TR_Wait \/ TR_Clear
    \/ TR_Flush \/ TR_FlushExtra \/ TR_ExtraLock \/ TR_WriteExtra
    \/ TR_NonEmpty \/ TR_Compare \/ TR_Packet
    \/ TR_Notify \/ TR_Advance \/ TR_Set

InitText ==
    \E cap \in 1..MaxCap, text \in Texts : InitWith("text", cap, text)

\* One thread writes the whole text in chunks of any size and then closes the
\* pipe; the other reads with read() and readline() until a call fails.
TPC_Write == \E n \in 1..MaxChars : TW_Call(n)

TPC_Close == w.pc = "idle" /\ w.pos = MaxChars /\ ~closed /\ C_Call

TPC_Read == /\ r.result \in {"none", "ok"}
            /\ \E op \in TextReadOps, size \in (1..MaxRead) \cup {Inf} : TR_Call(op, size)

NextTextPC ==
    \/ TPC_Write \/ TPC_Close \/ TPC_Read
    \/ TextWriterStep \/ SharedWriterStep \/ TextReaderStep \/ CloserStep

SpecTextPC == InitText /\ [][NextTextPC]_vars

\* One thread writes the whole text in chunks of any size; the other reads it
\* back with readline() calls, with or without a size.  The pipe is not closed.
TL_Read == /\ r.result \in {"none", "ok"}
           /\ \E size \in (1..MaxRead) \cup {Inf} : TR_Call("readline", size)

NextTextLines ==
    \/ TPC_Write \/ TL_Read
    \/ TextWriterStep \/ SharedWriterStep \/ TextReaderStep

SpecTextLines == InitText /\ [][NextTextLines]_vars

\* ------------------------------- both pipes at work, and a bad argument
\* A producer that writes in chunks and then closes and a consumer that reads
\* with the default size, on a byte pipe or on a text pipe, and a thread that
\* calls read()/readline() with a negative size.
DefaultRead ==
    /\ r.result \in {"none", "ok"}
    /\ \/ R_Call("read", Inf)
       \/ \E op \in TextReadOps : TR_Call(op, Inf)

NextArgs ==
    \/ PC_Write \/ PC_Close \/ TPC_Write \/ TPC_Close \/ DefaultRead
    \/ WriterStep \/ TextWriterStep \/ ReaderStep \/ TextReaderStep \/ CloserStep
    \/ \E op \in TextReadOps, size \in NegativeSizes : V_Call(op, size)

SpecArgs == InitPipes /\ [][NextArgs]_vars

\* The same threads, and one call of seekable, seek, truncate or fileno at any
\* moment.
NextUnsupported ==
    \/ PC_Write \/ PC_Close \/ TPC_Write \/ TPC_Close \/ DefaultRead
    \/ WriterStep \/ TextWriterStep \/ ReaderStep \/ TextReaderStep \/ CloserStep
    \/ \E op \in UnsupportedOps \cup {"seekable"} : U_Call(op)

SpecUnsupported == InitPipes /\ [][NextUnsupported]_vars

\* ------------------------------------------------- the decoder on its own
\* The generator of __incremental_chunck_decoder is created for a limit and a
\* mode, and is then fed the encoding of a text chunk after chunk, the way
\* read() and readline() feed it: the next chunk begins after the bytes the
\* generator reported as used.  `start` is the position in the encoded text,
\* r.packet the chunk fed last, r.len and r.chars what the generator yielded.
DecoderTexts == [1..MaxChars -> {97, 233, NL}]

InitDecoder == \E text \in DecoderTexts : InitWith("decoder", 1, text)

D_Create(op, size) ==
    /\ kind = "decoder"
    /\ r.pc = "idle" /\ r.result = "none"
    /\ r' = [RIdle EXCEPT !.pc = "d_fed", !.op = op, !.size = size, !.gen = NewGenerator]
    /\ UNCHANGED <<sft, parked, pipe, read_lock, write_lock, w, c, h>>

D_Send(n) ==
    /\ kind = "decoder"
    /\ r.pc = "d_fed"
    /\ start + n <= Len(Encode(h.text))
    /\ LET data == SubSeq(Encode(h.text), start + 1, start + n)
           a    == GeneratorSend(r.gen, data, r.size, r.op = "readline")
       IN  /\ r' = IF a.raised # "none"
                   THEN [RIdle EXCEPT !.op = r.op, !.size = r.size, !.result = a.raised]
                   ELSE [r EXCEPT !.gen = a.gen, !.len = a.used, !.chars = a.chars,
                                  !.packet = data, !.read = r.read + Len(a.chars),
                                  !.data_blocks = r.data_blocks \o a.chars]
           /\ start' = start + a.used
    /\ UNCHANGED <<sft, parked, kind, buffer, end, closed, read_event, write_event, extra, total, read,
                        read_lock, write_lock, w, c, h>>

NextDecoder ==
    \/ \E op \in TextReadOps, size \in (1..MaxRead) \cup {Inf} : D_Create(op, size)
    \/ \E n \in 0..(2 * MaxChars) : D_Send(n)

SpecDecoder == InitDecoder /\ [][NextDecoder]_vars

\* ------------------------------------------------- writes, then one read
\* Writes totalling N <= capacity bytes into a fresh pipe, one after the other,
\* and then, with no write in progress, read(N).  The steps that wait on an
\* event and clear it are left out: C8 states that their positions are never
\* reached.
SEQ_Write == /\ r.pc = "idle" /\ r.result = "none"
             /\ \E n \in 0..MaxBytes : w.pos + n <= Capacity /\ W_Call(n)

SEQ_Read == /\ w.pc = "idle" /\ r.result = "none"
            /\ R_Call("read", w.pos)

NextSeq ==
    \/ SEQ_Write \/ SEQ_Read
    \/ W_Enter \/ W_Loop \/ W_AvailCond \/ W_Avail
    \/ W_Packet \/ W_Notify \/ W_Advance \/ W_Set
    \/ R_Loop \/ R_Inner \/ R_NonEmpty \/ R_Compare
    \/ R_Packet \/ R_Notify \/ R_Copy \/ R_Advance \/ R_Set

InitSeq == \E cap \in 1..MaxBytes : InitPipe("bytes", cap)

SpecSeq == InitSeq /\ [][NextSeq]_vars

\* --------------------------------------------------- reading line by line
\* One thread writes the payload in chunks and then closes the pipe; the other
\* calls readline() with any size.  The storage may hold the whole payload.
LN_Read == /\ r.result # "ClosedError"
           /\ \E size \in ReadSizes : R_Call("readline", size)

NextLine == PC_Write \/ PC_Close \/ LN_Read \/ WriterStep \/ ReaderStep \/ CloserStep

SpecLine == InitSeq /\ [][NextLine]_vars


\* ------------------------------------------------ two threads that write
\* Two threads call write() and the writable property on one byte pipe, each
\* with its own part of the payload, while a third thread drains the pipe with
\* one read() of the default size.  The pipe is not closed.
InitWriters ==
    /\ \E cap \in 1..MaxCap : InitFields("bytes", cap, TextPayload)
    /\ sft = NoFallen
    /\ parked = [WIdle EXCEPT !.pos = MaxBytes - 1]

NextWriters ==
    \/ PC_Write \/ B_WritableCond \/ B_Writable \/ W_Switch \/ WriterStep
    \/ (r.result = "none" /\ R_Call("read", Inf)) \/ ReaderStep

SpecWriters == InitWriters /\ [][NextWriters]_vars

\* ------------------------------------------- a reader that keeps reading
\* One thread writes the whole text in chunks of any size and then stays idle;
\* the pipe is not closed.  The other thread calls read(size) with a size it
\* chooses, again and again, and is never kept from running: a step of read()
\* that stays possible is taken.
TF_Read == /\ r.result \in {"none", "ok"}
           /\ \E size \in 1..MaxRead : TR_Call("read", size)

NextTextFair ==
    \/ TPC_Write \/ TF_Read
    \/ TextWriterStep \/ SharedWriterStep \/ TextReaderStep

SpecTextFair ==
    InitText /\ [][NextTextFair]_vars /\ WF_vars(TF_Read \/ TextReaderStep)

\* ================================================================== claims
\* C1: in every reachable state of a byte pipe of capacity C, whatever the
\* interleaving of write, read/readline/readinto and close(), the cursors
\* satisfy 0 <= write_cursor - read_cursor <= C.
C1_CursorsWithinCapacity ==
    kind = "bytes" => (0 <= end - start /\ end - start <= Capacity)

\* The ring is full after the write cursor went round the storage, the reader
\* is in the middle of a call and close() has been called.
C1_Witness ==
    /\ kind = "bytes" /\ end - start = Capacity /\ start > 0
    /\ end > Capacity /\ r.pc = "advance" /\ closed

C3_NoLostWakeup ==
    ~(w.pc = "wait" /\ ~write_event /\ r.pc = "wait" /\ ~read_event)

\* C4: a read() of size >= 1 issued after close() has returned on a byte pipe
\* that holds M >= 1 unread bytes returns the first min(size, M) of them, so
\* that repeated reads drain the M bytes in order.
C4_HalfCloseDrains ==
    (/\ kind = "bytes" /\ r.pc = "idle" /\ r.op = "read" /\ r.result # "none"
     /\ h.r_after_close /\ h.r_occupied >= 1 /\ r.size >= 1)
    => (/\ r.result = "ok"
        /\ r.ret = SubSeq(Payload, h.r_start + 1, h.r_start + Min(r.size, h.r_occupied)))

\* C5: a close() called by another thread while the writer waits for space
\* inside write() is not held up by that writer: it can take the write lock
\* and set the closed flag.
C5_CloseReachesBlockedWriter ==
    (kind = "bytes" /\ c = "acquire" /\ w.pc = "wait" /\ ~write_event)
    => ENABLED C_SetClosed

\* C6: when close() sets the flag while the reader waits for data on an empty
\* ring, the waiting read()/readline()/readinto() returns the bytes it had
\* collected up to then, and does not raise the closed error.
C6_BlockedReadReturnsCollected ==
    (kind = "bytes" /\ r.pc = "idle" /\ h.blocked)
    => (r.result = "ok" /\ r.ret = h.collected)

\* A read(2) that had collected one byte and was waiting for the second when
\* the pipe was closed has returned that one byte.
C6_Witness ==
    /\ kind = "bytes" /\ r.pc = "idle" /\ h.blocked /\ r.result = "ok"
    /\ r.size = 2 /\ Len(r.ret) = 1

\* C7: backpressure.  A writer that is blocked again (waiting, signal not set)
\* once the reader has finished removing bytes has stored exactly as many
\* bytes as were removed: the ring is full again.
C7_BlockedWriterRefilledRing ==
    (kind = "bytes" /\ w.pc = "wait" /\ ~write_event /\ r.pc = "idle")
    => Occupied = Capacity

\* C8: after writes totalling N <= capacity bytes into a fresh pipe, read(N)
\* returns the bytes written, in order, and neither side ever waits.
C8_WriteThenRead ==
    /\ w.pc # "wait" /\ r.pc # "wait"
    /\ r.result # "ClosedError"
    /\ r.result = "ok" => r.ret = SubSeq(Payload, 1, w.pos)

\* The storage was filled completely and read back in one call.
C8_Witness ==
    /\ r.result = "ok" /\ Len(r.ret) = Capacity /\ Capacity = MaxBytes
    /\ r.ret = Payload /\ w.ret = 1

\* C10: a read()/readline()/readinto() of the byte pipe ends with the closed
\* error if and only if the pipe was closed and the ring empty when the call
\* was entered; in every other case it returns a result.
C10_ClosedErrorIffClosedAndEmpty ==
    (kind = "bytes" /\ r.pc = "idle" /\ r.result # "none")
    => (r.result = "ClosedError" <=> (h.r_closed /\ h.r_occupied = 0))

\* A readline() entered on a closed pipe that still held bytes has returned.
C10_Witness ==
    /\ kind = "bytes" /\ r.pc = "idle" /\ r.op = "readline" /\ r.result = "ok"
    /\ h.r_closed /\ h.r_occupied >= 1

\* C9: a write() on a byte pipe or a text pipe that was closed when the call
\* was made ends with the closed error, and no step of it changes the cursors,
\* the storage, the staged bytes or the character counters.
C9_ClosedWriteRejected ==
    [][(h'.w_closed /\ w'.pc # w.pc)
        => (/\ UNCHANGED <<start, end, buffer, extra, total, read, closed>>
            /\ w'.pc \in {"acquire", "idle"}
            /\ w'.pc = "idle" => w'.result = "ClosedError")]_vars

\* A write() on a closed text pipe, with bytes in the ring and staged bytes,
\* has ended with the closed error.
C9_Witness ==
    /\ kind = "text" /\ w.pc = "idle" /\ w.result = "ClosedError" /\ h.w_closed
    /\ Len(extra) > 0 /\ Occupied > 0 /\ total > 0

\* C11: the closed flag is monotonic: once set it stays set in every later
\* state; and once it is set (so, all the more, after close() has returned) no
\* step of a write call increases the write cursor.
C11_ClosedMonotonic ==
    [][(closed => closed') /\ (closed => end' = end)]_vars

\* close() has returned on a pipe that holds bytes, and a write() called after
\* that has ended with the closed error.
C11_Witness ==
    /\ closed /\ c = "idle" /\ h.w_closed /\ w.pc = "idle" /\ w.result = "ClosedError"
    /\ end > 0 /\ Occupied > 0

\* C12: close() on a pipe that is already closed runs to its end like the first
\* one (it has no failing path), and none of its steps changes the closed
\* flag, the cursors or the storage.
C12_CloseIdempotent ==
    [][(closed /\ c' # c)
        => (/\ UNCHANGED <<closed, start, end, buffer, extra>>
            /\ c' \in {"acquire", "set_write", "set_read", "idle"})]_vars

\* A write() has met the closed error, so a first close() had returned; a
\* second close() has taken the lock and assigned the flag again, on a pipe
\* that holds unread bytes.
C12_Witness ==
    /\ closed /\ c = "set_read" /\ w.pc = "idle" /\ w.result = "ClosedError"
    /\ Occupied > 0 /\ start > 0

C14_InOrder ==
    \A k \in start..(end - 1) : buffer[(k % Len(buffer)) + 1] = Payload[k + 1]

C14_Advanced ==
    IF w.pc \in {"idle", "acquire"} THEN end = w.pos
    ELSE end = w.pos + w.done + (IF w.pc = "set" THEN w.next_packet ELSE 0)

C14_WriteReturnsCount ==
    /\ [](kind = "bytes" => (C14_InOrder /\ C14_Advanced))
    /\ [][(kind = "bytes" /\ w.pc \notin {"idle", "acquire"} /\ w'.pc = "idle")
            => (/\ w'.result = "ok"
                /\ w'.ret = w.done
                /\ w'.ret <= Len(w.data)
                /\ ~closed => w'.ret = Len(w.data)
                /\ w'.pos = w.pos + w'.ret
                /\ end' = w.pos + w'.ret)]_vars

\* A write() of more bytes than the storage holds has returned len(data),
\* after waiting for the reader, and the write cursor stands at that count.
C14_Witness ==
    /\ kind = "bytes" /\ w.pc = "idle" /\ w.result = "ok"
    /\ w.ret = MaxBytes /\ w.ret > Capacity /\ end = MaxBytes /\ start < end

\* C15: readline(size) of the byte pipe returns at most size bytes, with at
\* most one line terminator, which is then the last byte; the read cursor has
\* advanced by exactly the number of bytes returned, and these are the bytes
\* of the stream at those positions, so that what follows the terminator is
\* still in the ring.
C15_ReadlineStopsAtNewline ==
    (kind = "bytes" /\ r.pc = "idle" /\ r.op = "readline" /\ r.result = "ok")
    => (/\ r.size # Inf => Len(r.ret) <= r.size
        /\ \A i \in 1..Len(r.ret) : r.ret[i] = NL => i = Len(r.ret)
        /\ start = h.r_start + Len(r.ret)
        /\ r.ret = SubSeq(Payload, h.r_start + 1, start))

\* The storage held the whole payload, terminator in the middle; readline()
\* has returned the line with its terminator and left the rest in the ring.
C15_Witness ==
    /\ kind = "bytes" /\ r.pc = "idle" /\ r.op = "readline" /\ r.result = "ok"
    /\ r.size = Inf /\ h.r_occupied = MaxBytes /\ h.r_start = 0
    /\ r.ret = SubSeq(Payload, 1, NLPos) /\ Occupied = MaxBytes - NLPos /\ Occupied > 0

\* C16: a read() with size = infinity entered on an open byte pipe returns
\* only once the pipe is closed and the ring is empty, and returns every byte
\* of the stream from the read cursor at entry up to the write cursor.
C16_ReadAllUntilTerminal ==
    (/\ kind = "bytes" /\ r.pc = "idle" /\ r.op = "read" /\ r.size = Inf
     /\ r.result = "ok" /\ ~h.r_closed)
    => (/\ closed /\ Occupied = 0
        /\ r.ret = SubSeq(Payload, h.r_start + 1, end))

\* C17: read(size) and readinto() of the byte pipe, with a finite size, never
\* return more than size bytes, and a call that returns while the pipe is
\* still open (so the pipe was open during the whole call) returns exactly
\* size bytes.
C17_FiniteReadIsExact ==
    [][(/\ kind = "bytes" /\ r.pc # "idle" /\ r'.pc = "idle"
        /\ r.op \in {"read", "readinto"} /\ r.size # Inf)
        => (/\ r'.result = "ok"
            /\ Len(r'.ret) <= r.size
            /\ ~closed => Len(r'.ret) = r.size)]_vars

\* A read(MaxRead) entered when the ring held fewer bytes has waited for the
\* writer and returned MaxRead bytes on the open pipe.
C17_Witness ==
    /\ kind = "bytes" /\ r.pc = "idle" /\ r.op = "read" /\ r.result = "ok"
    /\ r.size = MaxRead /\ Len(r.ret) = MaxRead /\ h.r_occupied < MaxRead
    /\ ~closed /\ c = "idle"

\* C18: text round trip.  A text with two-byte characters and line terminators
\* goes through a text pipe whose storage is smaller than its encoding and is
\* read back with readline() calls: no call fails in the decoder, the results
\* concatenated are always a prefix of the text, and they are the whole text
\* once nothing is left in the pipe.
C18_TextRoundTrip ==
    (kind = "text" /\ Capacity < Len(Encode(h.text)))
    => (/\ r.result # "UnicodeDecodeError"
        /\ IsPrefix(h.received, h.text)
        /\ (/\ w.pc = "idle" /\ w.pos = MaxChars /\ r.pc = "idle"
            /\ Occupied = 0 /\ extra = <<>>) => h.received = h.text)

\* C19: when a read()/readline() of the text pipe returns, the bytes by which
\* it advanced the read cursor are exactly the encoding of the characters it
\* returned, so that the next call starts at a character boundary.
C19_ReadsEndAtCharBoundary ==
    (kind = "text" /\ r.pc = "idle" /\ r.result = "ok")
    => SubSeq(Encode(h.text), h.r_start + 1, start) = Encode(r.ret)

\* C20: line-boundary precision, for the text of one-byte characters that ends
\* with its terminator.  Given the whole encoded text and a limit of n
\* characters, n smaller than the length of the line, the decoder yields the
\* first n characters and reports n bytes used.  A readline(n) made before
\* anything was consumed returns exactly the first n characters and leaves the
\* read cursor at n; a readline() without size returns what remains of the
\* line, terminator included.
C20_DecoderCount ==
    \A n \in 1..(MaxChars - 1) :
        LET a == GeneratorSend(NewGenerator, Encode(AsciiLine), n, TRUE)
        IN  a.raised = "none" /\ a.used = n /\ a.chars = SubSeq(AsciiLine, 1, n)

C20_LineBoundary ==
    /\ C20_DecoderCount
    /\ (/\ kind = "text" /\ h.text = AsciiLine /\ r.pc = "idle" /\ r.op = "readline"
        /\ r.result = "ok")
       => (/\ (h.r_start = 0 /\ r.size < MaxChars)
               => (r.ret = SubSeq(AsciiLine, 1, r.size) /\ start = r.size)
           /\ r.size = Inf
               => (r.ret = SubSeq(AsciiLine, h.r_start + 1, MaxChars) /\ start = MaxChars))

\* readline(n) has returned the first characters of the line and the next
\* readline() has returned the terminator that was left.
C20_Witness ==
    /\ kind = "text" /\ h.text = AsciiLine /\ r.pc = "idle" /\ r.op = "readline"
    /\ r.result = "ok" /\ r.size = Inf /\ h.r_start = MaxChars - 1
    /\ r.ret = <<NL>> /\ h.received = AsciiLine /\ read = MaxChars

\* C21: for every chunk fed to the decoder, the number of bytes it reports as
\* used is the number of bytes of the encoding of the characters it yielded
\* for that chunk.
C21_UsedMatchesChars ==
    (kind = "decoder" /\ r.pc = "d_fed") => r.len = Len(Encode(r.chars))

\* C22: when the decoder is asked to stop at a line terminator (and no limit
\* on the characters is set) and the chunk fed holds one, the bytes reported
\* as used end at the first terminator of the chunk.
C22_UsedEndsAtNewline ==
    (/\ kind = "decoder" /\ r.pc = "d_fed" /\ r.op = "readline" /\ r.size = Inf
     /\ Contains(r.packet, NL))
    => r.len = IndexOf(r.packet, NL) + 1

\* C23: a write(text) of the text pipe whose character count was at most
\* `writable` when the call tested it (line 835) never waits on the
\* space-available signal, whatever a concurrent reader does.
C23_FittingWriteNeverWaits ==
    ~(kind = "text" /\ w.fits /\ w.pc = "wait")


\* C24: a write(text) of the text pipe that completes while the pipe is open
\* returns the number of characters of text and has increased the character
\* total by that number, whether or not part of the encoded bytes stayed in
\* the staging area `extra`.
C24_WriteCountsChars ==
    (kind = "text" /\ w.pc = "idle" /\ w.result = "ok" /\ ~closed)
        => (w.ret = h.w_chars /\ total = h.w_total + h.w_chars)

\* a completed write on an open pipe that left bytes staged in `extra`
C24_Witness ==
    /\ kind = "text" /\ w.pc = "idle" /\ w.result = "ok" /\ ~closed
    /\ extra # <<>> /\ h.w_chars > 0

\* C25: on the byte pipe and on the text pipe, whatever the state (open or
\* closed, empty or not, a read or a write under way), seekable() returns
\* false, and seek(), truncate() and fileno() fail with OSError, the
\* unsupported-operation error of the pipes; the call leaves the cursors, the
\* storage, the staged bytes, the counters and the closed flag as they were.
C25_Unsupported ==
    /\ [](/\ h.u_op = "seekable" => h.u_result = "False"
          /\ h.u_op \in UnsupportedOps => h.u_result = "OSError")
    /\ [][h'.u_op # h.u_op =>
             UNCHANGED <<buffer, start, end, closed, extra, total, read>>]_vars

\* seek(), truncate() or fileno() has failed on a closed pipe that still holds
\* bytes
C25_Witness ==
    /\ h.u_op \in UnsupportedOps /\ h.u_result = "OSError"
    /\ closed /\ end > start

\* C26: save_fallen_threads returns only when the finalizer of every
\* FallenThread that was alive when the handler began has been started and
\* has ended; the checker leaves its loop (both `finished` flags seen true)
\* only when no started finalizer is still running.
C26_ReturnsAfterFinalizers ==
    (kind = "shutdown" /\ sft.k = "done")
        => \A t \in sft.alive0 : sft.finalizer[t] = "done"

\* C27: in every reachable state of a byte pipe, the bytes returned by the
\* completed reads, followed by the bytes the current read has collected, are
\* the first bytes of the stream accepted from the writer, in order and
\* without a gap or a repetition; between calls they are exactly the bytes
\* the read cursor has passed.
C27_Returned ==
    h.received \o (IF r.pc = "idle" THEN <<>> ELSE SubSeq(r.buffer, 1, r.read))

C27_ReturnedIsPrefix ==
    kind = "bytes" =>
        /\ IsPrefix(C27_Returned, SubSeq(Payload, 1, end))
        /\ Len(C27_Returned) = start - (IF r.pc = "set" THEN r.len ELSE 0)

\* The reader has returned bytes stored on both sides of the wrap point while
\* a write is under way.
C27_Witness ==
    /\ kind = "bytes" /\ r.pc = "idle" /\ w.pc # "idle"
    /\ Len(h.received) > Capacity /\ end > start

\* C28: in every reachable state of a byte pipe where the other side is
\* between two calls, a writer that waits on the space-available signal while
\* that signal is not set faces a full ring, and a reader that waits on the
\* data-available signal while that signal is not set faces an empty ring.
C28_WaitersFaceTheirCondition ==
    kind = "bytes" =>
        /\ (w.pc = "wait" /\ ~write_event /\ r.pc = "idle") => end - start = Len(buffer)
        /\ (r.pc = "wait" /\ ~read_event /\ w.pc = "idle") => end = start

\* C29: on the byte pipe, notification is edge-triggered.  The write step
\* that advances the write cursor goes on to set the data-available signal
\* if and only if the ring is empty when the cursor advances; the read step
\* that advances the read cursor goes on to set the space-available signal
\* if and only if the ring is full when the cursor advances; and no other
\* step of write() or of a read sets a signal.
C29_EdgeTriggered ==
    [][kind = "bytes" =>
        /\ (w.pc = "advance" /\ w'.pc = "set") => (w.notify <=> end = start)
        /\ (r.pc = "advance" /\ r'.pc = "set") => (r.notify <=> end - start = Len(buffer))
        /\ (~read_event /\ read_event') => ((w.pc = "set" /\ w.notify) \/ c' # c)
        /\ (~write_event /\ write_event') => ((r.pc = "set" /\ r.notify) \/ c' # c)]_vars

\* C30: on both pipes, a close() that has been called and has not returned
\* yet is never stuck while no read is under way: the closing thread can take
\* its next step, or the writer that holds the write lock can take a step
\* towards releasing it.
C30_CloseNeverStuck ==
    (c # "idle" /\ r.pc = "idle")
        => ENABLED (CloserStep \/ WriterStep \/ TextWriterStep)

\* C31: on the text pipe, no thread takes the write lock while it holds the
\* read lock (a thread that holds both took the write lock first).
C31_WriteLockFirst ==
    [][(kind = "text" /\ write_lock' # write_lock /\ write_lock' # "none")
        => read_lock # write_lock']_vars

\* C32: in every step of a pipe operation the write cursor is changed only by
\* the thread that holds the write lock and the read cursor only by the thread
\* that holds the read lock; a thread that holds only one of the locks leaves
\* the other cursor as it is.
C32_CursorsUnderLocks ==
    [][(kind \in {"bytes", "text"} /\ end' # end
            => (\/ write_lock = "writer" /\ w' # w /\ r' = r
                \/ write_lock = "reader" /\ r' # r /\ w' = w))
       /\ (kind \in {"bytes", "text"} /\ start' # start
            => (read_lock = "reader" /\ r' # r /\ w' = w))]_vars

\* The reader, which moved the read cursor earlier, holds both locks and is
\* about to move the write cursor by copying staged bytes into the ring, while
\* the writer has called write() again and waits for the write lock.
C32_Witness ==
    /\ kind = "text" /\ r.pc = "t_write_extra" /\ extra # <<>>
    /\ read_lock = "reader" /\ write_lock = "reader"
    /\ start > 0 /\ w.pc \notin {"idle"}

\* The bytes a thread has stored and counted so far in its call of write() are
\* the last bytes of the stream, in their order, wherever they are still unread.
C33_StoredAtTail(x) ==
    LET d == x.done + (IF x.pc = "set" THEN x.next_packet ELSE 0)
    IN  (x.pc \notin {"idle", "acquire", "writable"})
            => \A i \in 1..d :
                  (end - d + i - 1 >= start)
                      => buffer[PyMod(end - d + i - 1, Len(buffer)) + 1] = x.data[i]

\* C33: two threads that call write() on one byte pipe take turns: at most one
\* of them is past the write lock, and the bytes of the call in progress lie
\* next to each other at the end of the stream, so the stream is made of whole
\* payloads; a read() is in progress at the same time.
C33_WritesSerialize ==
    kind = "bytes" =>
        /\ ~(w.pc \notin {"idle", "acquire"} /\ parked.pc \notin {"idle", "acquire"})
        /\ C33_StoredAtTail(w)
        /\ C33_StoredAtTail(parked)

\* One thread is inside write() after its second copy, with the first byte of
\* its payload still unread; the other thread has called write() and waits for
\* the lock; the reader holds the read lock in the middle of read().
C33_Witness ==
    /\ kind = "bytes" /\ w.pc = "set" /\ w.done + w.next_packet >= 2
    /\ end - start >= 2
    /\ parked.pc = "acquire" /\ parked.data # <<>>
    /\ read_lock = "reader" /\ r.pc \notin {"idle", "loop"} /\ start > 0

\* C35: the value the writable property of a byte pipe returns is the capacity
\* minus a number of unread bytes the ring held at some moment of the call
\* (between the number at its last step and the number at its first); so it
\* returns 0 only if the ring was full during the call.
C35_WritableIsFreeSpace ==
    (kind = "bytes" /\ w.pc = "idle" /\ w.result = "writable")
        => \E o \in w.occ_out..w.occ_in : w.ret = Capacity - o

\* The slots of the storage that hold a byte not yet read.
C34_Unread == {PyMod(p, Len(buffer)) + 1 : p \in start..(end - 1)}

\* A step that copies into the storage: no slot whose byte is unread changes;
\* the run of write() ends at or before the end of the storage; the second run
\* of a call whose payload fitted the free space is its last.
C34_Copy ==
    /\ \A i \in 1..Len(buffer) :
          (i > Len(buffer') \/ buffer'[i] # buffer[i]) => i \notin C34_Unread
    /\ (w.pc = "packet" /\ w'.pc = "notify") =>
          /\ PyMod(end, Len(buffer)) + w'.next_packet <= Len(buffer)
          /\ \A k \in 1..w'.next_packet :
                PyMod(end, Len(buffer)) + k \notin C34_Unread
          /\ (w.done > 0 /\ (IF kind = "text" THEN w.fits ELSE h.w_fits))
                => w.done + w'.next_packet = Len(w.data)

\* C34: the storage keeps the length it was created with; a copy into it by
\* write() is one run that ends at or before the end of the storage, and no
\* copy (that of the flush of staged bytes included) changes a slot whose byte
\* is unread; when the payload fitted the free space, the second run of a call
\* is its last.
C34_StorageRuns ==
    [](kind \in {"bytes", "text"} => Len(buffer) = Capacity)
        /\ [][(kind \in {"bytes", "text"}) => C34_Copy]_vars

\* A write() whose payload fitted the free space has stored its first run up
\* to the end of the storage and its second run at the start of the storage,
\* next to a byte that is still unread.
C34_Witness ==
    /\ kind = "bytes" /\ Len(buffer) = 2 /\ w.pc = "notify" /\ h.w_fits
    /\ w.done = 1 /\ w.next_packet = 1 /\ Len(w.data) = 2
    /\ PyMod(end, 2) = 0 /\ end - start = 1

\* The unread bytes of the ring, oldest first.
C36_Ring == [k \in 1..(end - start) |-> buffer[PyMod(start + k - 1, Len(buffer)) + 1]]

\* C36: on a text pipe, whenever no write() is in progress, the unread bytes of
\* the ring followed by the staged bytes are the encoding of the text write()
\* has accepted so far without the bytes the reader has consumed; so staged
\* bytes come before the bytes of any later write.
C36_StagingKeepsOrder ==
    (kind = "text" /\ w.pc = "idle")
        => C36_Ring \o extra
             = SubSeq(Encode(SubSeq(h.text, 1, w.pos)), start + 1,
                      Len(Encode(SubSeq(h.text, 1, w.pos))))

\* No call is in progress; the last write() has staged bytes that did not fit,
\* behind unread bytes of the ring, and the reader has consumed bytes before.
C36_Witness ==
    /\ kind = "text" /\ w.pc = "idle" /\ w.result = "ok" /\ r.pc = "idle"
    /\ extra # <<>> /\ end - start > 0 /\ start > 0 /\ w.pos = MaxChars

C39_ReadableNeverNegative ==
    kind = "text" => read <= total

\* C40: when read() or readline() of a text pipe raises the closed error, every
\* character written has been returned: `readable` is 0 and no bytes are
\* staged.
C40_ClosedErrorOnlyWhenDrained ==
    (kind = "text" /\ r.pc = "idle" /\ r.result = "ClosedError")
        => (total - read = 0 /\ extra = <<>>)

\* The writer has finished and stays idle, the pipe is open and bytes are
\* staged.
C37_Stalled ==
    kind = "text" /\ ~closed /\ extra # <<>> /\ w.pc = "idle" /\ w.pos = MaxChars

\* C37: on an open text pipe whose writer has finished and left bytes staged,
\* the reader is never left waiting for the data-available signal: nothing sets
\* that signal any more, so the staged bytes would never reach it.
C37_StagedBytesNotStranded ==
    ~(C37_Stalled /\ r.pc = "t_wait" /\ ~read_event)

\* The same as a property of the behaviours in which the reader keeps running:
\* from such a state on, the reader ends up having taken every character
\* written.
C37_StagedBytesDelivered ==
    C37_Stalled ~> (h.received \o r.data_blocks = h.text /\ extra = <<>>)

====
